---- MODULE Spec2Model ----
(***************************************************************************)
(* The analysis orchestration of capital-stack-wizardry-app:               *)
(*   - ReplicateBusinessAnalyzer (src/src/utils/replicateAnalyzer.ts):     *)
(*     four concurrent domain analyses joined by Promise.all, score        *)
(*     fusion, derived ratios, narrative synthesis;                        *)
(*   - clampToDbPrecision, in the analyzer and in the scanner edge         *)
(*     function described in src/unnamed/part_000;                         *)
(*   - callAIModel, the retry loop of the scanner edge function.           *)
(*                                                                         *)
(* JavaScript values are records [k, n, s]: k is the kind ("undefined",    *)
(* "number", "nan", "pinf", "ninf", "string"), n the magnitude of a        *)
(* finite number and s the text of a string.  A finite ratio or score x    *)
(* is held as the integer x * 10000 (0.7 is 7000, 9.9999 is 99999);        *)
(* money amounts are whole dollars.  Arithmetic on finite numbers is       *)
(* exact decimal arithmetic; NaN and the infinities follow IEEE-754.       *)
(* toFixed rounds half away from zero; no input of the model puts a        *)
(* quotient or a weighted sum exactly on a rounding tie.                   *)
(***************************************************************************)
EXTENDS Integers, Sequences, FiniteSets, TLC

VARIABLES
  business,     \* the BusinessRecord passed to runComprehensiveAnalysis
  pc,           \* position of runComprehensiveAnalysis
  task,         \* the promise of each domain analysis: its state and value
  outcome,      \* what the provider call of each domain came back with
  results,      \* the values array Promise.all builds, by position
  outOfOrder,   \* some task settled before a task listed earlier
  out,          \* the object runComprehensiveAnalysis resolves with
  clampIn,      \* argument value of a clampToDbPrecision call
  clampMax,     \* argument maxValue of that call
  clampOut,     \* its return value
  clampPc,      \* "input", "analyzer" or "scanner": which function ran
  rPc,          \* position of callAIModel
  rAttempt,     \* its loop variable attempt
  rLog,         \* what each provider call made so far came back with
  rDelays,      \* the backoff delays slept so far, in ms
  rLastError,   \* its local lastError
  rResult,      \* value callAIModel returned
  rAnalysis,    \* provenance of the analysis the caller ends up with
  fbPc,         \* "input", or which fallback generator ran
  fbOut,        \* the object that generator returned
  edge,         \* position of the replicate-api call behind each invoke
  poll,         \* the polls pollPrediction has made for each of them
  bItems,       \* items.length of a processWithRateLimit call
  batchSize,    \* its parameter batchSize
  bIndex,       \* its loop variable i
  bPc,          \* its position
  bState,       \* what has become of processor(item) for each item
  bArrival,     \* the items of the current batch in order of completion
  bResults,     \* its array results: the items whose results it holds
  bSleeps,      \* the inter-batch delays that have elapsed
  jObj,         \* the JSON object a provider response carries
  jText,        \* the response text
  jPc,          \* "input", or which normalizer ran
  jOut,         \* what that normalizer returned or that it threw
  aPc,          \* position of callReplicateModel and pollPrediction
  maxAttempts,  \* parameter maxAttempts of pollPrediction
  aPosts,       \* the POST requests the call has sent
  aPolls,       \* the status each GET request of the call came back with
  aResult,      \* what the call returned or threw
  isScanning,   \* state isScanning of AgentControlPanel
  currentRun,   \* state currentRun of AgentControlPanel
  recentRuns,   \* state recentRuns of AgentControlPanel
  startPc,      \* position of startScan
  fetches,      \* the fetchRecentRuns queries in flight
  events,       \* the change events of analysis_runs not yet delivered
  runRow,       \* status of the row the scan creates in analysis_runs
  otherRow,     \* status of another row among the five most recent
  cScores,      \* the scores of the four domain results given to calculateCompositeScore
  cField,       \* the score that is raised
  cRaised,      \* the raised value of that score
  cPc,          \* position of the two calls of calculateCompositeScore
  cLow,         \* composite score of the results as given
  cHigh,        \* composite score of the results with the score raised
  selectedBusiness,\* the business whose capital stack is shown
  activeLevers  \* the ids of the active levers, in array order

runVars == <<business, pc, task, outcome, results, outOfOrder, out>>
clampVars == <<clampIn, clampMax, clampOut, clampPc>>
retryVars == <<rPc, rAttempt, rLog, rDelays, rLastError, rResult, rAnalysis>>
fbVars == <<fbPc, fbOut>>
edgeVars == <<edge, poll>>
batchVars == <<bItems, batchSize, bIndex, bPc, bState, bArrival, bResults, bSleeps>>
jsonVars == <<jObj, jText, jPc, jOut>>
adapterVars == <<aPc, maxAttempts, aPosts, aPolls, aResult>>
panelVars == <<isScanning, currentRun, recentRuns, startPc, fetches, events, runRow, otherRow>>
compVars == <<cScores, cField, cRaised, cPc, cLow, cHigh>>
leverVars == <<selectedBusiness, activeLevers>>
otherVars == <<jsonVars, adapterVars, panelVars, compVars, leverVars>>
restOfJson == <<runVars, clampVars, retryVars, fbVars, edgeVars, batchVars,
    adapterVars, panelVars, compVars, leverVars>>
restOfAdapter == <<runVars, clampVars, retryVars, fbVars, edgeVars, batchVars,
    jsonVars, panelVars, compVars, leverVars>>
restOfPanel == <<runVars, clampVars, retryVars, fbVars, edgeVars, batchVars,
    jsonVars, adapterVars, compVars, leverVars>>
restOfComp == <<runVars, clampVars, retryVars, fbVars, edgeVars, batchVars,
    jsonVars, adapterVars, panelVars, leverVars>>
restOfLever == <<runVars, clampVars, retryVars, fbVars, edgeVars, batchVars,
    jsonVars, adapterVars, panelVars, compVars>>
vars == <<business, pc, task, outcome, results, outOfOrder, out,
          clampIn, clampMax, clampOut, clampPc,
          rPc, rAttempt, rLog, rDelays, rLastError, rResult, rAnalysis,
          fbPc, fbOut, edge, poll,
          bItems, batchSize, bIndex, bPc, bState, bArrival, bResults, bSleeps,
          jObj, jText, jPc, jOut,
          aPc, maxAttempts, aPosts, aPolls, aResult,
          isScanning, currentRun, recentRuns, startPc, fetches, events, runRow, otherRow,
          cScores, cField, cRaised, cPc, cLow, cHigh,
          selectedBusiness, activeLevers>>

----------------------------------------------------------------------------
(* JavaScript values and the operators the code applies to them.           *)

Absent == [k |-> "undefined", n |-> 0, s |-> ""]
Num(x) == [k |-> "number", n |-> x, s |-> ""]
NaN == [k |-> "nan", n |-> 0, s |-> ""]
PosInf == [k |-> "pinf", n |-> 0, s |-> ""]
NegInf == [k |-> "ninf", n |-> 0, s |-> ""]
Str(t) == [k |-> "string", n |-> 0, s |-> t]

\* ToBoolean, as applied by the || operator.
Truthy(v) ==
  CASE v.k = "undefined" -> FALSE
    [] v.k = "nan" -> FALSE
    [] v.k = "number" -> v.n # 0
    [] v.k = "string" -> v.s # ""
    [] OTHER -> TRUE

\* a || b
OrElse(a, b) == IF Truthy(a) THEN a ELSE b

\* ToNumber, as applied by the arithmetic operators and by Math.max.  The
\* strings of the model are words, never numerals: a non-empty one is NaN.
ToNumber(v) ==
  CASE v.k = "undefined" -> NaN
    [] v.k = "string" -> IF v.s = "" THEN Num(0) ELSE NaN
    [] OTHER -> v

\* x * w for a positive finite constant w; the product is held in the unit
\* of x divided by the unit of w.
Times(x, w) ==
  LET a == ToNumber(x)
  IN IF a.k = "number" THEN Num(a.n * w) ELSE a

\* a + b on numbers
Plus(a, b) ==
  CASE a.k = "nan" \/ b.k = "nan" -> NaN
    [] a.k = "pinf" -> IF b.k = "ninf" THEN NaN ELSE PosInf
    [] a.k = "ninf" -> IF b.k = "pinf" THEN NaN ELSE NegInf
    [] b.k = "pinf" -> PosInf
    [] b.k = "ninf" -> NegInf
    [] OTHER -> Num(a.n + b.n)

\* one - x for a finite constant one
OneMinus(one, x) ==
  LET a == ToNumber(x)
  IN CASE a.k = "nan" -> NaN
       [] a.k = "pinf" -> NegInf
       [] a.k = "ninf" -> PosInf
       [] OTHER -> Num(one - a.n)

\* p / q for two finite integers, rounded half away from zero to a whole
\* number, for q # 0: what toFixed does with the quotient.
RoundDiv(p, q) ==
  LET ap == IF p < 0 THEN -p ELSE p
      aq == IF q < 0 THEN -q ELSE q
      m == (2 * ap + aq) \div (2 * aq)
  IN IF (p < 0) = (q < 0) THEN m ELSE -m

\* Number((a / b).toFixed(digits)) for finite integers a and b, the result
\* held times 10000; tenPow is 10^digits.  Division by zero gives an
\* infinity, or NaN for 0 / 0, which toFixed and Number carry through.
DivToFixed(a, b, tenPow) ==
  IF b = 0
  THEN (IF a > 0 THEN PosInf ELSE IF a < 0 THEN NegInf ELSE NaN)
  ELSE Num(RoundDiv(a * tenPow, b) * (10000 \div tenPow))

\* Math.max(a, b)
MathMax(a, b) ==
  LET x == ToNumber(a)
      y == ToNumber(b)
  IN CASE x.k = "nan" \/ y.k = "nan" -> NaN
       [] x.k = "pinf" \/ y.k = "pinf" -> PosInf
       [] x.k = "ninf" -> y
       [] y.k = "ninf" -> x
       [] OTHER -> IF x.n >= y.n THEN x ELSE y

\* Math.min(a, b)
MathMin(a, b) ==
  LET x == ToNumber(a)
      y == ToNumber(b)
  IN CASE x.k = "nan" \/ y.k = "nan" -> NaN
       [] x.k = "ninf" \/ y.k = "ninf" -> NegInf
       [] x.k = "pinf" -> y
       [] y.k = "pinf" -> x
       [] OTHER -> IF x.n <= y.n THEN x ELSE y

----------------------------------------------------------------------------
(* Helper methods of ReplicateBusinessAnalyzer.                            *)

\* The default of the parameter maxValue: 9.9999.
DefaultMaxValue == 99999

clampToDbPrecision(value, maxValue) ==
  MathMin(MathMax(Num(0), value), maxValue)

calculateCompositeScore(financial, strategic, market, risk) ==
  LET financialScore == OrElse(financial.financial_health_score, Num(7000))
      strategicScore == OrElse(strategic.strategic_value_score, Num(7000))
      marketScore ==
        IF market.market_growth_rate = Str("rapidly_growing") THEN Num(9000)
        ELSE IF market.market_growth_rate = Str("growing") THEN Num(7000)
        ELSE IF market.market_growth_rate = Str("stable") THEN Num(5000)
        ELSE Num(3000)
      riskScore == OneMinus(10000, OrElse(risk.overall_risk_score, Num(3000)))
      \* the weights 0.3, 0.3, 0.2, 0.2 as 3, 3, 2, 2 tenths: the sum is held
      \* times 100000
      sum == Plus(Plus(Plus(Times(financialScore, 3), Times(strategicScore, 3)),
                       Times(marketScore, 2)),
                  Times(riskScore, 2))
  IN \* Number(sum.toFixed(2))
     IF sum.k = "number" THEN Num(RoundDiv(sum.n, 1000) * 100) ELSE sum

----------------------------------------------------------------------------
(* Domain analysis results.  A result carries the fields the analyzer      *)
(* reads or sets; a field an object does not have is Absent (undefined).   *)

NoFields ==
  [financial_health_score |-> Absent, automation_score |-> Absent,
   profit_margins |-> Absent, strategic_value_score |-> Absent,
   market_growth_rate |-> Absent, overall_risk_score |-> Absent,
   analysis_source |-> Absent, confidence_score |-> Absent]

\* profit_margins is the text of this number followed by "%".
generateFallbackFinancialAnalysis(b) ==
  [NoFields EXCEPT
     !.financial_health_score = Num(7000),
     !.automation_score = Num(6000),
     !.profit_margins = DivToFixed(b.annual_net_profit * 100, b.annual_revenue, 10),
     !.analysis_source = Str("fallback"),
     !.confidence_score = Num(6000)]

generateFallbackStrategicAnalysis(b) ==
  [NoFields EXCEPT
     !.strategic_value_score = Num(7000),
     !.analysis_source = Str("fallback"),
     !.confidence_score = Num(6000)]

generateFallbackMarketAnalysis(b) ==
  [NoFields EXCEPT
     !.market_growth_rate = Str("stable"),
     !.analysis_source = Str("fallback"),
     !.confidence_score = Num(6000)]

generateFallbackRiskAnalysis(b) ==
  [NoFields EXCEPT
     !.overall_risk_score = Num(4000),
     !.analysis_source = Str("fallback"),
     !.confidence_score = Num(6000)]

\* What supabase.functions.invoke('replicate-api', ...) comes back with:
\*   "invoke_error"  {data, error} with error set
\*   "not_success"   data.success is false
\*   "thrown"        the call throws, or data is null
\*   "ok"            data.success is true, data.data is the payload
FailureKinds == {"invoke_error", "not_success", "thrown"}
Failure(kind) == [kind |-> kind, data |-> NoFields]
Ok(payload) == [kind |-> "ok", data |-> payload]

\* A settled promise.
Fulfilled(v) == [state |-> "fulfilled", value |-> v]
Rejected == [state |-> "rejected", value |-> NoFields]
Unsettled(st) == [state |-> st, value |-> NoFields]

\* An analyze function whose catch block is missing: the failure escapes.
analyzeFinancialsNoCatch(businessData, resp) ==
  IF resp.kind # "ok"
  THEN Rejected
  ELSE Fulfilled([resp.data EXCEPT !.analysis_source = Str("replicate_llama"),
                                   !.confidence_score = Num(8500)])

\* An analyzeFinancials that spreads response.data after its own two tags,
\* so that the tags of the payload win.
analyzeFinancialsPayloadLast(businessData, resp) ==
  IF resp.kind # "ok"
  THEN Fulfilled(generateFallbackFinancialAnalysis(businessData))
  ELSE Fulfilled([resp.data EXCEPT
         !.analysis_source =
            IF resp.data.analysis_source = Absent
            THEN Str("replicate_llama") ELSE resp.data.analysis_source,
         !.confidence_score =
            IF resp.data.confidence_score = Absent
            THEN Num(8500) ELSE resp.data.confidence_score])

analyzeFinancials(businessData, resp) ==
  IF resp.kind # "ok"
  THEN Fulfilled(generateFallbackFinancialAnalysis(businessData))
  ELSE Fulfilled([resp.data EXCEPT !.analysis_source = Str("replicate_llama"),
                                   !.confidence_score = Num(8500)])

analyzeStrategy(businessData, resp) ==
  IF resp.kind # "ok"
  THEN Fulfilled(generateFallbackStrategicAnalysis(businessData))
  ELSE Fulfilled([resp.data EXCEPT !.analysis_source = Str("replicate_mixtral"),
                                   !.confidence_score = Num(8800)])

analyzeMarket(businessData, resp) ==
  IF resp.kind # "ok"
  THEN Fulfilled(generateFallbackMarketAnalysis(businessData))
  ELSE Fulfilled([resp.data EXCEPT !.analysis_source = Str("replicate_market"),
                                   !.confidence_score = Num(8200)])

\* An analyzeRisks that spreads response.data after its own two tags, so
\* that the tags of the payload win.
analyzeRisksPayloadLast(businessData, resp) ==
  IF resp.kind # "ok"
  THEN Fulfilled(generateFallbackRiskAnalysis(businessData))
  ELSE Fulfilled([resp.data EXCEPT
         !.analysis_source =
            IF resp.data.analysis_source = Absent
            THEN Str("replicate_risk") ELSE resp.data.analysis_source,
         !.confidence_score =
            IF resp.data.confidence_score = Absent
            THEN Num(8700) ELSE resp.data.confidence_score])

analyzeRisks(businessData, resp) ==
  IF resp.kind # "ok"
  THEN Fulfilled(generateFallbackRiskAnalysis(businessData))
  ELSE Fulfilled([resp.data EXCEPT !.analysis_source = Str("replicate_risk"),
                                   !.confidence_score = Num(8700)])

----------------------------------------------------------------------------
(* runComprehensiveAnalysis: the four domain tasks, Promise.all, fusion    *)
(* and the narrative calls.                                                *)

Domains == <<"financial", "strategic", "market", "risk">>
Slots == 1..4

AskingPrices == {0, 2800000}
NetProfits == {-1000000, 0, 1000000}
Revenues == {0, 3600000}
BusinessRecords ==
  [asking_price : AskingPrices, annual_net_profit : NetProfits,
   annual_revenue : Revenues]

\* The provider payloads (response.data) of each domain: scores inside and
\* outside [0,1], negative, missing, and a word where a number is expected;
\* the third financial one carries provenance fields of its own.
FinancialPayloads ==
  {NoFields,
   [NoFields EXCEPT !.financial_health_score = Num(8000),
                    !.automation_score = Num(9000)],
   [NoFields EXCEPT !.financial_health_score = Num(50000),
                    !.automation_score = Num(152340),
                    !.analysis_source = Str("fallback"),
                    !.confidence_score = Num(10000)],
   [NoFields EXCEPT !.financial_health_score = Str("high"),
                    !.automation_score = Str("high")]}

StrategicPayloads ==
  {[NoFields EXCEPT !.strategic_value_score = v] :
     v \in {Num(0), Num(9000), Num(-20000)}}

MarketPayloads ==
  {[NoFields EXCEPT !.market_growth_rate = v] :
     v \in {Str("rapidly_growing"), Str("growing"), Str("stable"),
            Str("declining")}}

\* The last one carries provenance fields of its own.
RiskPayloads ==
  {[NoFields EXCEPT !.overall_risk_score = v] :
     v \in {Absent, Num(2000), Num(30000)}}
  \cup {[NoFields EXCEPT !.overall_risk_score = Num(5000),
                         !.analysis_source = Str("fallback"),
                         !.confidence_score = Num(6000)]}

Payloads(i) ==
  CASE i = 1 -> FinancialPayloads
    [] i = 2 -> StrategicPayloads
    [] i = 3 -> MarketPayloads
    [] OTHER -> RiskPayloads

Responses(i) ==
  {Failure(kind) : kind \in FailureKinds} \cup {Ok(p) : p \in Payloads(i)}

\* The i-th promise handed to Promise.all.
AnalyzeTask(i, b, resp) ==
  CASE i = 1 -> analyzeFinancials(b, resp)
    [] i = 2 -> analyzeStrategy(b, resp)
    [] i = 3 -> analyzeMarket(b, resp)
    [] OTHER -> analyzeRisks(b, resp)

generateFallback(i, b) ==
  CASE i = 1 -> generateFallbackFinancialAnalysis(b)
    [] i = 2 -> generateFallbackStrategicAnalysis(b)
    [] i = 3 -> generateFallbackMarketAnalysis(b)
    [] OTHER -> generateFallbackRiskAnalysis(b)

\* A join that collects the values in the order the promises settle.
PromiseAllSlotByArrival(i, filled) == Cardinality(filled) + 1

\* Promise.all puts the value of its i-th promise at position i of the
\* array it resolves with, whenever that promise settles.
PromiseAllSlot(i, filled) == i

\* A join that lets the caller go on as soon as one promise has settled.
PromiseRaceState(t) ==
  IF \E i \in Slots : t[i].state = "rejected" THEN "Rejected"
  ELSE IF \E i \in Slots : t[i].state = "fulfilled" THEN "AllSettled"
  ELSE "Dispatching"

\* Promise.all rejects as soon as one promise rejects and resolves once all
\* have fulfilled; until then the caller stays suspended at the await.  A
\* rejection is rethrown by the catch block of runComprehensiveAnalysis.
PromiseAllState(t) ==
  IF \E i \in Slots : t[i].state = "rejected" THEN "Rejected"
  ELSE IF \A i \in Slots : t[i].state = "fulfilled" THEN "AllSettled"
  ELSE "Dispatching"

NoOut ==
  [automation_opportunity_score |-> Absent, composite_score |-> Absent,
   cap_rate |-> Absent, payback_years |-> Absent,
   financial_analysis |-> NoFields, strategic_assessment |-> NoFields,
   market_analysis |-> NoFields, risk_evaluation |-> NoFields,
   investment_thesis |-> "", executive_summary |-> "",
   confidence_scores |-> <<Absent, Absent, Absent, Absent>>]

RunStart ==
  /\ pc = "Created"
  /\ task = [i \in Slots |-> Unsettled("idle")]
  /\ outcome = [i \in Slots |-> "none"]
  /\ results = [i \in Slots |-> NoFields]
  /\ outOfOrder = FALSE
  /\ out = NoOut

RunInit == business \in BusinessRecords /\ RunStart

\* No run under way: the other specifications leave the analyzer here.
SampleBusiness ==
  [asking_price |-> 2800000, annual_net_profit |-> 1000000,
   annual_revenue |-> 3600000]

RunIdle == business = SampleBusiness /\ RunStart

\* Lines 160-165: the four analyze functions are called one after the
\* other; each runs to its await of supabase.functions.invoke.
Dispatch ==
  /\ pc = "Created"
  /\ pc' = "Dispatching"
  /\ task' = [i \in Slots |-> Unsettled("pending")]
  /\ UNCHANGED <<business, outcome, results, outOfOrder, out>>

\* The invoke of one domain task comes back; the task runs to its end and
\* its promise settles.  The tasks run on even after the join has rejected.
InvokeReturns(i, resp) ==
  /\ task[i].state = "pending"
  /\ LET settled == AnalyzeTask(i, business, resp)
         filled == {j \in Slots : task[j].state = "fulfilled"}
     IN /\ task' = [task EXCEPT ![i] = settled]
        /\ outcome' = [outcome EXCEPT ![i] = resp.kind]
        /\ results' = IF settled.state = "fulfilled"
                      THEN [results EXCEPT ![PromiseAllSlot(i, filled)] =
                              settled.value]
                      ELSE results
        /\ outOfOrder' = (outOfOrder \/ \E j \in 1..(i - 1) : task[j].state = "pending")
        /\ pc' = IF pc = "Dispatching" THEN PromiseAllState(task') ELSE pc
  /\ UNCHANGED <<business, out>>

\* Lines 168 and 179: Number(((annual_net_profit / asking_price) * 100).toFixed(1))
cap_rate(businessData) ==
  DivToFixed(businessData.annual_net_profit * 100, businessData.asking_price, 10)

\* Lines 169 and 180: Number((asking_price / annual_net_profit).toFixed(1))
payback_years(businessData) ==
  DivToFixed(businessData.asking_price, businessData.annual_net_profit, 10)

\* What the invoke of a narrative call comes back with:
\*   "invoke_error", "not_success", "thrown"  as for a domain call
\*   "no_output"   data.prediction.output is missing or empty
\*   "not_text"    output is neither a string nor an array (trim throws)
\*   "blank"       output is text of white space only
\*   "text"        output is text with something in it
NarrativeResponses ==
  FailureKinds \cup {"no_output", "not_text", "blank", "text"}

\* The text a narrative function returns: "provider" stands for the trimmed
\* provider output, "template" for the sentence built from the record, ""
\* for the empty string.
NarrativeText(resp) ==
  CASE resp = "text" -> "provider"
    [] resp = "blank" -> ""
    [] OTHER -> "template"

generateInvestmentThesis(businessData, resp) == NarrativeText(resp)

generateExecutiveSummary(businessData, resp) == NarrativeText(resp)

\* Lines 167-186: Promise.all has resolved; the scores and ratios of the
\* returned object are computed, then generateInvestmentThesis is awaited.
\* The fields that copy one field of an analysis or default to a constant
\* (ownership_model, resilience_factors, strategic_flags, seller_financing,
\* government_contracts) and the time stamps are left out.
Fuse ==
  /\ pc = "AllSettled"
  /\ LET financialAnalysis == results[1]
         strategicAnalysis == results[2]
         marketAnalysis == results[3]
         riskAnalysis == results[4]
     IN out' =
          [NoOut EXCEPT
             !.automation_opportunity_score =
                clampToDbPrecision(
                  OrElse(financialAnalysis.automation_score, Num(7000)),
                  Num(DefaultMaxValue)),
             !.composite_score =
                clampToDbPrecision(
                  calculateCompositeScore(financialAnalysis, strategicAnalysis,
                                          marketAnalysis, riskAnalysis),
                  Num(DefaultMaxValue)),
             !.cap_rate = cap_rate(business),
             !.payback_years = payback_years(business),
             !.financial_analysis = financialAnalysis,
             !.market_analysis = marketAnalysis,
             !.strategic_assessment = strategicAnalysis,
             !.risk_evaluation = riskAnalysis,
             !.confidence_scores =
                <<financialAnalysis.confidence_score,
                  strategicAnalysis.confidence_score,
                  marketAnalysis.confidence_score,
                  riskAnalysis.confidence_score>>]
  /\ pc' = "Thesis"
  /\ UNCHANGED <<business, task, outcome, results, outOfOrder>>

\* Lines 187-189: the thesis call comes back; the summary call is made.
ThesisReturns(resp) ==
  /\ pc = "Thesis"
  /\ out' = [out EXCEPT !.investment_thesis =
                          generateInvestmentThesis(business, resp)]
  /\ pc' = "Summary"
  /\ UNCHANGED <<business, task, outcome, results, outOfOrder>>

\* Lines 190-204: the summary call comes back; the promise of
\* runComprehensiveAnalysis resolves with out.
SummaryReturns(resp) ==
  /\ pc = "Summary"
  /\ out' = [out EXCEPT !.executive_summary =
                          generateExecutiveSummary(business, resp)]
  /\ pc' = "Done"
  /\ UNCHANGED <<business, task, outcome, results, outOfOrder>>

ClampIdle ==
  /\ clampIn = Absent
  /\ clampMax = Num(DefaultMaxValue)
  /\ clampOut = Absent
  /\ clampPc = "idle"

RetryIdle ==
  /\ rPc = "idle"
  /\ rAttempt = 0
  /\ rLog = <<>>
  /\ rDelays = <<>>
  /\ rLastError = "null"
  /\ rResult = "none"
  /\ rAnalysis = "none"

FallbackIdle ==
  /\ fbPc = "idle"
  /\ fbOut = NoFields

\* The callers of the replicate-api function: the four domain tasks, then
\* generateInvestmentThesis (5) and generateExecutiveSummary (6).
Calls == 1..6

EdgeIdle ==
  /\ edge = [c \in Calls |-> "idle"]
  /\ poll = [c \in Calls |-> 0]

BatchIdle ==
  /\ bItems = 0
  /\ batchSize = 1
  /\ bIndex = 0
  /\ bPc = "idle"
  /\ bState = <<>>
  /\ bArrival = <<>>
  /\ bResults = <<>>
  /\ bSleeps = 0

JsonIdle ==
  /\ jObj = <<>>
  /\ jText = <<>>
  /\ jPc = "idle"
  /\ jOut = [ok |-> FALSE, value |-> <<>>]

AdapterIdle ==
  /\ aPc = "idle"
  /\ maxAttempts = 1
  /\ aPosts = 0
  /\ aPolls = <<>>
  /\ aResult = "none"

PanelIdle ==
  /\ isScanning = FALSE
  /\ currentRun = [id |-> "null", status |-> "null"]
  /\ recentRuns = <<>>
  /\ startPc = "idle"
  /\ fetches = <<>>
  /\ events = <<>>
  /\ runRow = "none"
  /\ otherRow = "completed"

CompIdle ==
  /\ cScores = <<>>
  /\ cField = "none"
  /\ cRaised = 0
  /\ cPc = "idle"
  /\ cLow = 0
  /\ cHigh = 0

LeverIdle ==
  /\ selectedBusiness = [asking_price |-> 0]
  /\ activeLevers = <<>>

OthersIdle ==
  /\ JsonIdle
  /\ AdapterIdle
  /\ PanelIdle
  /\ CompIdle
  /\ LeverIdle

RestIdleOfJson ==
  /\ RunIdle
  /\ ClampIdle
  /\ RetryIdle
  /\ FallbackIdle
  /\ EdgeIdle
  /\ BatchIdle
  /\ AdapterIdle
  /\ PanelIdle
  /\ CompIdle
  /\ LeverIdle

RestIdleOfAdapter ==
  /\ RunIdle
  /\ ClampIdle
  /\ RetryIdle
  /\ FallbackIdle
  /\ EdgeIdle
  /\ BatchIdle
  /\ JsonIdle
  /\ PanelIdle
  /\ CompIdle
  /\ LeverIdle

RestIdleOfPanel ==
  /\ RunIdle
  /\ ClampIdle
  /\ RetryIdle
  /\ FallbackIdle
  /\ EdgeIdle
  /\ BatchIdle
  /\ JsonIdle
  /\ AdapterIdle
  /\ CompIdle
  /\ LeverIdle

RestIdleOfComp ==
  /\ RunIdle
  /\ ClampIdle
  /\ RetryIdle
  /\ FallbackIdle
  /\ EdgeIdle
  /\ BatchIdle
  /\ JsonIdle
  /\ AdapterIdle
  /\ PanelIdle
  /\ LeverIdle

RestIdleOfLever ==
  /\ RunIdle
  /\ ClampIdle
  /\ RetryIdle
  /\ FallbackIdle
  /\ EdgeIdle
  /\ BatchIdle
  /\ JsonIdle
  /\ AdapterIdle
  /\ PanelIdle
  /\ CompIdle

Init == RunInit /\ ClampIdle /\ RetryIdle /\ FallbackIdle /\ EdgeIdle /\ BatchIdle
  /\ OthersIdle

Next ==
  \/ Dispatch /\ UNCHANGED <<clampVars, retryVars, fbVars, edgeVars, batchVars, otherVars>>
  \/ \E i \in Slots : \E resp \in Responses(i) :
       InvokeReturns(i, resp) /\ UNCHANGED <<clampVars, retryVars, fbVars, edgeVars, batchVars, otherVars>>
  \/ Fuse /\ UNCHANGED <<clampVars, retryVars, fbVars, edgeVars, batchVars, otherVars>>
  \/ \E resp \in NarrativeResponses :
       ThesisReturns(resp) /\ UNCHANGED <<clampVars, retryVars, fbVars, edgeVars, batchVars, otherVars>>
  \/ \E resp \in NarrativeResponses :
       SummaryReturns(resp) /\ UNCHANGED <<clampVars, retryVars, fbVars, edgeVars, batchVars, otherVars>>

Spec == Init /\ [][Next]_vars

----------------------------------------------------------------------------
(* Properties of runComprehensiveAnalysis.                                 *)

ProviderSources ==
  <<Str("replicate_llama"), Str("replicate_mixtral"), Str("replicate_market"),
    Str("replicate_risk")>>

\* r is an analysis of domain i: the provider's, tagged by the analyze
\* function of that domain, or the fallback of that domain.
IsAnalysisOf(i, r) ==
  \/ r.analysis_source = ProviderSources[i]
  \/ r = generateFallback(i, business)

Failed(i) == outcome[i] \in FailureKinds

AllFulfilled == \A i \in Slots : task[i].state = "fulfilled"

\* C1: whatever combination of the four domain calls fails (invoke error,
\* success=false or a thrown exception), runComprehensiveAnalysis never
\* rejects, and the object it resolves with holds one analysis of each of
\* the domains financial, strategic, market and risk.
C1_RunResolvesWithFourAnalyses ==
  /\ pc # "Rejected"
  /\ pc = "Done" =>
       /\ IsAnalysisOf(1, out.financial_analysis)
       /\ IsAnalysisOf(2, out.strategic_assessment)
       /\ IsAnalysisOf(3, out.market_analysis)
       /\ IsAnalysisOf(4, out.risk_evaluation)

C1_Witness ==
  /\ pc = "Done"
  /\ outcome[1] = "invoke_error"
  /\ outcome[2] = "not_success"
  /\ outcome[3] = "thrown"
  /\ outcome[4] = "ok"

\* C2: fusion starts, and the run ends, only when all four domain tasks
\* have settled with a result; as long as one task is pending the run stays
\* at the join, also when another task has failed.
C2_FusionOnlyAfterAllSettled ==
  /\ pc \in {"AllSettled", "Thesis", "Summary", "Done", "Rejected"} => AllFulfilled
  /\ out # NoOut => AllFulfilled

C2_Witness ==
  /\ pc = "Dispatching"
  /\ \E i, j \in Slots :
       /\ Failed(i)
       /\ task[i].state = "fulfilled"
       /\ task[j].state = "pending"

\* C3: the composite score and the assignment of results to domains are a
\* function of what each domain task settled with, not of the order in
\* which the tasks settled.
C3_FusionOrderIndependent ==
  pc \in {"Thesis", "Summary", "Done"} =>
    /\ out.financial_analysis = task[1].value
    /\ out.strategic_assessment = task[2].value
    /\ out.market_analysis = task[3].value
    /\ out.risk_evaluation = task[4].value
    /\ out.composite_score =
         clampToDbPrecision(
           calculateCompositeScore(task[1].value, task[2].value,
                                   task[3].value, task[4].value),
           Num(DefaultMaxValue))

C3_Witness ==
  /\ pc = "Done"
  /\ outOfOrder
  /\ outcome[1] = "ok"
  /\ Failed(2)

\* v is a finite number in [0, 1]
InUnitInterval(v) == v.k = "number" /\ 0 <= v.n /\ v.n <= 10000

\* C5: the composite_score of every result of runComprehensiveAnalysis is a
\* number in [0, 1], whatever scores the provider responses carry.
C5_CompositeInUnitInterval ==
  pc = "Done" => InUnitInterval(out.composite_score)

\* The numeric fields of a domain analysis result.
NumericFields(r) ==
  {r.financial_health_score, r.automation_score, r.strategic_value_score,
   r.overall_risk_score, r.confidence_score}

\* C6: every domain analysis result handed to score fusion has each of its
\* numeric fields finite and in [0, 1] (a field the result does not have
\* aside); none is NaN, infinite or a non-number.
C6_ResultsFiniteAndBounded ==
  pc \in {"AllSettled", "Thesis", "Summary", "Done"} =>
    \A i \in Slots : \A v \in NumericFields(results[i]) :
      v = Absent \/ InUnitInterval(v)

\* The sentinel cap of payback years, 99.
PaybackSentinel == Num(99 * 10000)

\* C7: for a record with annual net profit <= 0 the payback_years of the
\* result is the sentinel cap 99, never Infinity, NaN or negative.
C7_ZeroProfitPaybackAtSentinel ==
  (pc = "Done" /\ business.annual_net_profit <= 0) =>
    out.payback_years = PaybackSentinel

\* C8: for a record with asking price zero the run resolves and the
\* cap_rate of the result is zero, never NaN or infinite.
C8_ZeroPriceCapRateZero ==
  /\ pc # "Rejected"
  /\ (pc = "Done" /\ business.asking_price = 0) => out.cap_rate = Num(0)

\* The composite score of the four fallback results.
FallbackComposite(b) ==
  calculateCompositeScore(generateFallback(1, b), generateFallback(2, b),
                          generateFallback(3, b), generateFallback(4, b))

\* C9: with asking price 2,800,000, net profit 1,000,000 and all four
\* domain calls failing, the result has capitalization rate 0.357 (net
\* profit divided by asking price), payback years 2.8, the composite score
\* of the four fallback results, and all four domains marked fallback.
C9_FallbackOnlyRun ==
  (/\ pc = "Done"
   /\ business.asking_price = 2800000
   /\ business.annual_net_profit = 1000000
   /\ \A i \in Slots : Failed(i)) =>
    /\ out.cap_rate = Num(3570)
    /\ out.payback_years = Num(28000)
    /\ out.composite_score = FallbackComposite(business)
    /\ out.composite_score = Num(6400)
    /\ out.financial_analysis.analysis_source = Str("fallback")
    /\ out.strategic_assessment.analysis_source = Str("fallback")
    /\ out.market_analysis.analysis_source = Str("fallback")
    /\ out.risk_evaluation.analysis_source = Str("fallback")
    /\ out.confidence_scores = <<Num(6000), Num(6000), Num(6000), Num(6000)>>

----------------------------------------------------------------------------
(* clampToDbPrecision as a function of its arguments: the analyzer's       *)
(* (replicateAnalyzer.ts) and the scanner edge function's (part_000).      *)

\* The default of the scanner's parameter maxValue: 9.999.
ScannerDefaultMaxValue == 99990

\* if (typeof value !== 'number' || isNaN(value)) return 0;
\* return Number(Math.min(Math.max(0, value), maxValue).toFixed(3));
clampToDbPrecisionScanner(value, maxValue) ==
  IF value.k \in {"undefined", "string", "nan"}
  THEN Num(0)
  ELSE LET m == MathMin(MathMax(Num(0), value), maxValue)
       IN IF m.k = "number" THEN Num(RoundDiv(m.n, 10) * 10) ELSE m

ClampNumbers ==
  {-20000, -1, 0, 1, 4, 5, 7000, 9999, 10000, 10001, 99985, 99990, 99994,
   99995, 99999, 100000, 152340}

ClampInputs ==
  {Absent, Str("high"), NaN, PosInf, NegInf} \cup {Num(n) : n \in ClampNumbers}

ClampMaxValues == {Num(10000), Num(ScannerDefaultMaxValue), Num(DefaultMaxValue)}

ClampInit ==
  /\ clampIn \in ClampInputs
  /\ clampMax \in ClampMaxValues
  /\ clampOut = Absent
  /\ clampPc = "input"
  /\ RunIdle
  /\ RetryIdle
  /\ FallbackIdle
  /\ EdgeIdle
  /\ BatchIdle
  /\ OthersIdle

ClampAnalyzer ==
  /\ clampPc = "input"
  /\ clampOut' = clampToDbPrecision(clampIn, clampMax)
  /\ clampPc' = "analyzer"
  /\ UNCHANGED <<clampIn, clampMax>>

ClampScanner ==
  /\ clampPc = "input"
  /\ clampOut' = clampToDbPrecisionScanner(clampIn, clampMax)
  /\ clampPc' = "scanner"
  /\ UNCHANGED <<clampIn, clampMax>>

ClampNext ==
  \/ ClampAnalyzer /\ UNCHANGED <<runVars, retryVars, fbVars, edgeVars, batchVars, otherVars>>
  \/ ClampScanner /\ UNCHANGED <<runVars, retryVars, fbVars, edgeVars, batchVars, otherVars>>

SpecClamp == ClampInit /\ [][ClampNext]_vars

\* C4: for every input v (negative, above max, NaN, +Infinity, -Infinity,
\* a non-number) clampToDbPrecision(v, max) is a number in [0, max], and
\* for NaN and infinite v it is the default 0.
C4_ClampWithinRange ==
  clampPc = "analyzer" =>
    /\ clampOut.k = "number"
    /\ 0 <= clampOut.n
    /\ clampOut.n <= clampMax.n
    /\ clampIn \in {NaN, PosInf, NegInf} => clampOut = Num(0)

----------------------------------------------------------------------------
(* callAIModel, the retry loop of the scanner edge function, and its       *)
(* caller (part_000, "Edge Function Error Handling" and "Fallback Data").  *)

maxRetries == 3

\* What one pass of the try block ends with:
\*   "ok"             a 2xx response whose content parses to an object
\*   "null_json"      a 2xx response whose content parses to null
\*   "network_error"  fetch throws
\*   "http_400", "http_429", "http_500"   response.ok is false
\*   "empty_content"  extractContent gives nothing
\*   "unparseable"    cleanAndParseJSON throws
AttemptFailures ==
  {"network_error", "http_400", "http_429", "http_500", "empty_content",
   "unparseable"}
AttemptOutcomes == {"ok", "null_json"} \cup AttemptFailures

\* A loop whose success path stores the parsed value and goes on.
AfterAttemptNoReturn(attempt, o) ==
  IF attempt < maxRetries
  THEN [pc |-> "sleeping", result |-> "none", delay |-> <<1000 * attempt>>]
  ELSE [pc |-> "returned", result |-> IF o = "ok" THEN "parsed" ELSE "null",
        delay |-> <<>>]

\* A loop that goes round once more than maxRetries allows.
AfterAttemptOneMore(attempt, o) ==
  IF o = "ok" THEN [pc |-> "returned", result |-> "parsed", delay |-> <<>>]
  ELSE IF o = "null_json" THEN [pc |-> "returned", result |-> "null", delay |-> <<>>]
  ELSE IF attempt <= maxRetries
  THEN [pc |-> "sleeping", result |-> "none", delay |-> <<1000 * attempt>>]
  ELSE [pc |-> "returned", result |-> "null", delay |-> <<>>]

\* A loop that sleeps the same 1000 ms before every retry.
AfterAttemptFixedDelay(attempt, o) ==
  IF o = "ok" THEN [pc |-> "returned", result |-> "parsed", delay |-> <<>>]
  ELSE IF o = "null_json" THEN [pc |-> "returned", result |-> "null", delay |-> <<>>]
  ELSE IF attempt < maxRetries
  THEN [pc |-> "sleeping", result |-> "none", delay |-> <<1000>>]
  ELSE [pc |-> "returned", result |-> "null", delay |-> <<>>]

\* Lines 1277-1308: where callAIModel stands after the pass numbered
\* attempt ended with o.  A parsed value is returned at once; a failure is
\* caught, and the loop sleeps 1000 * attempt ms before the next pass or,
\* after the last pass, falls out and returns null.
AfterAttempt(attempt, o) ==
  IF o = "ok" THEN [pc |-> "returned", result |-> "parsed", delay |-> <<>>]
  ELSE IF o = "null_json" THEN [pc |-> "returned", result |-> "null", delay |-> <<>>]
  ELSE IF attempt < maxRetries
  THEN [pc |-> "sleeping", result |-> "none", delay |-> <<1000 * attempt>>]
  ELSE [pc |-> "returned", result |-> "null", delay |-> <<>>]

\* Lines 1474-1475: performAIAnalysis(business) ?? generateFallbackAnalysis(business)
NullishCoalesce(result) == IF result = "null" THEN "fallback" ELSE "provider"

RetryInit ==
  RetryIdle /\ RunIdle /\ ClampIdle /\ FallbackIdle /\ EdgeIdle /\ BatchIdle
  /\ OthersIdle

\* callAIModel is called: the loop starts with attempt = 1 and fetches.
CallAIModel ==
  /\ rPc = "idle"
  /\ rPc' = "calling"
  /\ rAttempt' = 1
  /\ UNCHANGED <<rLog, rDelays, rLastError, rResult, rAnalysis>>

\* The provider call of the current pass comes back.
AttemptEnds(o) ==
  /\ rPc = "calling"
  /\ LET after == AfterAttempt(rAttempt, o)
     IN /\ rPc' = after.pc
        /\ rResult' = after.result
        /\ rDelays' = rDelays \o after.delay
        /\ rAttempt' = IF after.pc = "returned" /\ o \in AttemptFailures
                       THEN rAttempt + 1
                       ELSE rAttempt
  /\ rLog' = Append(rLog, o)
  /\ rLastError' = IF o \in AttemptFailures THEN o ELSE rLastError
  /\ UNCHANGED rAnalysis

\* The backoff timer fires: the next pass fetches.
BackoffElapses ==
  /\ rPc = "sleeping"
  /\ rPc' = "calling"
  /\ rAttempt' = rAttempt + 1
  /\ UNCHANGED <<rLog, rDelays, rLastError, rResult, rAnalysis>>

\* The caller takes the returned value, or the fallback for null.
CallerTakesResult ==
  /\ rPc = "returned"
  /\ rAnalysis' = NullishCoalesce(rResult)
  /\ rPc' = "done"
  /\ UNCHANGED <<rAttempt, rLog, rDelays, rLastError, rResult>>

RetryNext ==
  \/ CallAIModel /\ UNCHANGED <<runVars, clampVars, fbVars, edgeVars, batchVars, otherVars>>
  \/ \E o \in AttemptOutcomes : AttemptEnds(o) /\ UNCHANGED <<runVars, clampVars, fbVars, edgeVars, batchVars, otherVars>>
  \/ BackoffElapses /\ UNCHANGED <<runVars, clampVars, fbVars, edgeVars, batchVars, otherVars>>
  \/ CallerTakesResult /\ UNCHANGED <<runVars, clampVars, fbVars, edgeVars, batchVars, otherVars>>

SpecRetry == RetryInit /\ [][RetryNext]_vars

AllAttemptsFailed ==
  /\ Len(rLog) = maxRetries
  /\ \A k \in 1..Len(rLog) : rLog[k] \in AttemptFailures

\* C11 as stated: at most maxRetries provider calls are made, and when all
\* of them fail callAIModel signals a terminal failure that carries the
\* last underlying cause, which the caller answers with the fallback.
C11_TerminalFailureCarriesCause ==
  /\ Len(rLog) <= maxRetries
  /\ (AllAttemptsFailed /\ rPc \in {"returned", "done"}) =>
       /\ rResult = rLog[maxRetries]
       /\ rPc = "done" => rAnalysis = "fallback"

\* C11 amended: at most maxRetries provider calls are made; when all of
\* them fail callAIModel stops and returns null, the last underlying cause
\* being held in its local lastError only, and the caller substitutes the
\* fallback for the null.
C11_ExhaustedReturnsNullThenFallback ==
  /\ Len(rLog) <= maxRetries
  /\ rPc \in {"calling", "sleeping"} => Len(rLog) < maxRetries
  /\ (AllAttemptsFailed /\ rPc \in {"returned", "done"}) =>
       /\ rResult = "null"
       /\ rLastError = rLog[maxRetries]
       /\ rPc = "done" => rAnalysis = "fallback"

C11_Witness ==
  /\ AllAttemptsFailed
  /\ rPc = "done"
  /\ rAnalysis = "fallback"
  /\ rLastError = "http_500"

C13_BadRequestNotRetried ==
  \A k \in 1..(Len(rLog) - 1) : rLog[k] # "http_400"

\* C14: an unparseable response is not retried: no provider call follows
\* it, and the fallback is substituted at once.
C14_UnparseableNotRetried ==
  /\ \A k \in 1..(Len(rLog) - 1) : rLog[k] # "unparseable"
  /\ (Len(rLog) >= 1 /\ rLog[Len(rLog)] = "unparseable") =>
       /\ rPc \in {"returned", "done"}
       /\ rResult = "null"

----------------------------------------------------------------------------
(* The fallback generators as functions of the business record: the four   *)
(* of ReplicateBusinessAnalyzer and the scanner edge function's financial  *)
(* one (part_000, "Fallback Data Generation").                             *)

\* capRate = annual_net_profit / asking_price and paybackYears =
\* asking_price / annual_net_profit are JavaScript quotients.  The clamp
\* rounds to 3 decimals between bounds that have 3 decimals, so clamping
\* the quotient rounded to 3 decimals is the same number; payback_years is
\* Math.min(paybackYears, 99) unrounded, held here to 4 decimals.
generateFallbackFinancialAnalysisScanner(business_) ==
  LET profit == business_.annual_net_profit
      asking == business_.asking_price
      max == Num(ScannerDefaultMaxValue)
  IN [financial_health_score |->
        clampToDbPrecisionScanner(DivToFixed(profit * 10, asking, 1000), max),
      automation_score |-> Num(6500),
      cap_rate |-> clampToDbPrecisionScanner(DivToFixed(profit, asking, 1000), max),
      payback_years |-> MathMin(DivToFixed(asking, profit, 10000), Num(99 * 10000)),
      projected_growth |-> Num(500),
      risk_adjusted_return |->
        clampToDbPrecisionScanner(DivToFixed(profit * 8, asking * 10, 1000), max)]

\* Records of small businesses: the products the quotients are computed
\* from stay within TLC's integers.
FallbackAskingPrices == {0, 5000, 28000}
FallbackNetProfits == {-10000, 0, 3000, 10000}
FallbackRevenues == {0, 36000}
FallbackRecords ==
  [asking_price : FallbackAskingPrices,
   annual_net_profit : FallbackNetProfits,
   annual_revenue : FallbackRevenues]

FallbackInit ==
  /\ business \in FallbackRecords
  /\ RunStart
  /\ fbPc = "input"
  /\ fbOut = NoFields
  /\ ClampIdle
  /\ RetryIdle
  /\ EdgeIdle
  /\ BatchIdle
  /\ OthersIdle

\* One of the analyzer's four generators is applied to the record.
FallbackAnalyzer(i) ==
  /\ fbPc = "input"
  /\ fbOut' = generateFallback(i, business)
  /\ fbPc' = Domains[i]
  /\ UNCHANGED <<runVars, clampVars, retryVars, edgeVars, batchVars, otherVars>>

\* The scanner's generator is applied to the record.
FallbackScanner ==
  /\ fbPc = "input"
  /\ fbOut' = generateFallbackFinancialAnalysisScanner(business)
  /\ fbPc' = "scanner"
  /\ UNCHANGED <<runVars, clampVars, retryVars, edgeVars, batchVars, otherVars>>

FallbackNext ==
  \/ \E i \in Slots : FallbackAnalyzer(i)
  \/ FallbackScanner

SpecFallback == FallbackInit /\ [][FallbackNext]_vars

\* v is a finite number in [0, max].
FiniteWithin(v, max) == v.k = "number" /\ 0 <= v.n /\ v.n <= max

\* C16: for every domain and every business record (zero revenue, zero
\* asking price, zero or negative net profit included) the fallback result
\* has every numeric field finite and within its bound (scores within the
\* storage ceiling, payback years within [0, 99]), and the analyzer's
\* results are marked fallback-sourced.
C16_FallbackFiniteBoundedMarked ==
  /\ fbPc = "scanner" =>
       /\ \A v \in {fbOut.financial_health_score, fbOut.automation_score,
                    fbOut.cap_rate, fbOut.projected_growth,
                    fbOut.risk_adjusted_return} :
            FiniteWithin(v, ScannerDefaultMaxValue)
       /\ FiniteWithin(fbOut.payback_years, 99 * 10000)
  /\ fbPc \in {Domains[i] : i \in Slots} =>
       /\ \A v \in NumericFields(fbOut) :
            v = Absent \/ FiniteWithin(v, DefaultMaxValue)
       /\ fbOut.analysis_source = Str("fallback")

----------------------------------------------------------------------------
(* The narrative and the provenance of the object the run resolves with.   *)

\* C17: every result runComprehensiveAnalysis returns carries non-empty
\* text for investment_thesis and for executive_summary, whatever the
\* narrative calls came back with.
C17_NarrativeNeverEmpty ==
  pc = "Done" => out.investment_thesis # "" /\ out.executive_summary # ""

\* The four analyses of the result, by domain.
OutAnalyses ==
  <<out.financial_analysis, out.strategic_assessment, out.market_analysis,
    out.risk_evaluation>>

FallbackMarked == {i \in Slots : OutAnalyses[i].analysis_source = Str("fallback")}

\* C18: in the result of a run a domain is marked fallback-sourced, and
\* its confidence score is the fallback's 0.6, if and only if its provider
\* call failed; the number of fallback-marked domains is the number of
\* failed domain calls.
C18_FallbackMarkIffCallFailed ==
  pc = "Done" =>
    /\ \A i \in Slots :
         /\ i \in FallbackMarked <=> Failed(i)
         /\ out.confidence_scores[i] = Num(6000) <=> Failed(i)
    /\ Cardinality(FallbackMarked) = Cardinality({i \in Slots : Failed(i)})

C18_Witness ==
  /\ pc = "Done"
  /\ Failed(1) /\ Failed(2) /\ ~Failed(3) /\ ~Failed(4)
  /\ FallbackMarked = {1, 2}
  /\ out.risk_evaluation.overall_risk_score = Num(5000)
  /\ out.risk_evaluation.analysis_source = Str("replicate_risk")

\* The tag and the confidence an analyze function gives a provider result.
ProviderTag ==
  <<Str("replicate_llama"), Str("replicate_mixtral"), Str("replicate_market"),
    Str("replicate_risk")>>
ProviderConfidence == <<Num(8500), Num(8800), Num(8200), Num(8700)>>

\* C27: for every successful provider response, whatever fields its payload
\* has, the analysis_source of the domain result is the provider tag of the
\* domain and its confidence_score the provider value of the domain; a
\* result tagged 'fallback' is the result of the fallback generator.
C27_ProvenanceSetByCode ==
  pc = "Done" =>
    \A i \in Slots :
      /\ ~Failed(i) =>
           /\ OutAnalyses[i].analysis_source = ProviderTag[i]
           /\ OutAnalyses[i].confidence_score = ProviderConfidence[i]
           /\ out.confidence_scores[i] = ProviderConfidence[i]
      /\ OutAnalyses[i].analysis_source = Str("fallback") =>
           OutAnalyses[i] = generateFallback(i, business)

\* A run whose four calls succeeded, the financial payload claiming to be a
\* fallback of confidence 1.
C27_Witness ==
  /\ pc = "Done"
  /\ \A i \in Slots : ~Failed(i)
  /\ out.financial_analysis.automation_score = Num(152340)
  /\ out.financial_analysis.analysis_source = Str("replicate_llama")
  /\ out.financial_analysis.confidence_score = Num(8500)

----------------------------------------------------------------------------
(* The run on top of the replicate-api edge function: every invoke of the  *)
(* analyzer is answered by callReplicateModel and pollPrediction           *)
(* (supabase migration 20260206005604).                                    *)

\* The polling budget of pollPrediction, its parameter maxAttempts (30 by
\* default); the loop is checked with a smaller budget.
MaxPolls == 2

\* What the POST that creates a prediction comes back with.
CreateStatuses == {"fetch_error", "http_error", "starting", "succeeded"}

\* What a GET of the prediction comes back with.
PollStatuses == {"fetch_error", "succeeded", "failed", "processing"}

\* How the edge function has answered the invoke.
Answered == {"ok", "fail", "timed_out"}

\* An adapter that polls whatever status the created prediction has.
callReplicateModelPollsAll(status) ==
  CASE status \in {"fetch_error", "http_error"} -> "fail"
    [] OTHER -> "polling"

\* callReplicateModel after its POST: a fetch that throws or a response
\* that is not ok is an error, a starting or processing prediction is
\* polled, any other is returned.
callReplicateModel(status) ==
  CASE status \in {"fetch_error", "http_error"} -> "fail"
    [] status \in {"starting", "processing"} -> "polling"
    [] OTHER -> "ok"

\* The body of the polling loop once the GET has come back: a fetch or a
\* response.json() that throws ends the loop, 'succeeded' returns, 'failed'
\* throws, any other answer is slept on.
AfterPoll(status) ==
  CASE status = "succeeded" -> "ok"
    [] status \in {"failed", "fetch_error"} -> "fail"
    [] OTHER -> "sleeping"

\* A polling loop that never gives up: past the budget it neither polls
\* nor throws.
AfterPollSleepHangs(attempt) ==
  IF attempt < MaxPolls THEN "polling" ELSE "hung"

\* The 2 s sleep is over: attempt++, then the loop test; past the budget
\* pollPrediction throws 'Prediction timed out'.
AfterPollSleep(attempt) ==
  IF attempt < MaxPolls THEN "polling" ELSE "timed_out"

\* The payload a successful analysis call of domain i carries.
LivePayload(i) ==
  CASE i = 1 -> [NoFields EXCEPT !.financial_health_score = Num(8000),
                                 !.automation_score = Num(9000)]
    [] i = 2 -> [NoFields EXCEPT !.strategic_value_score = Num(9000)]
    [] i = 3 -> [NoFields EXCEPT !.market_growth_rate = Str("growing")]
    [] OTHER -> [NoFields EXCEPT !.overall_risk_score = Num(2000)]

\* What invoke resolves with, given the answer of the edge function: its
\* catch answers status 500, which invoke reports as an error.
InvokeResponse(i, answer) ==
  IF answer = "ok" THEN Ok(LivePayload(i)) ELSE Failure("invoke_error")

NarrativeResponse(answer) ==
  IF answer = "ok" THEN {"text", "blank", "no_output"} ELSE {"invoke_error"}

LiveInit ==
  /\ RunIdle
  /\ EdgeIdle
  /\ ClampIdle
  /\ RetryIdle
  /\ FallbackIdle
  /\ BatchIdle
  /\ OthersIdle

\* runComprehensiveAnalysis starts the four tasks; each invokes the edge
\* function, which posts its prediction.
LiveDispatch ==
  /\ Dispatch
  /\ edge' = [c \in Calls |-> IF c \in Slots THEN "posted" ELSE edge[c]]
  /\ UNCHANGED poll

PredictionCreated(c, status) ==
  /\ edge[c] = "posted"
  /\ edge' = [edge EXCEPT ![c] = callReplicateModel(status)]
  /\ UNCHANGED <<poll, runVars>>

\* attempt is a local of pollPrediction: it is gone once the loop is left.
PollAnswers(c, status) ==
  /\ edge[c] = "polling"
  /\ edge' = [edge EXCEPT ![c] = AfterPoll(status)]
  /\ poll' = [poll EXCEPT ![c] = IF status = "processing" THEN @ + 1 ELSE 0]
  /\ UNCHANGED runVars

PollSleepElapses(c) ==
  /\ edge[c] = "sleeping"
  /\ edge' = [edge EXCEPT ![c] = AfterPollSleep(poll[c])]
  /\ poll' = [poll EXCEPT ![c] = IF poll[c] < MaxPolls THEN @ ELSE 0]
  /\ UNCHANGED runVars

\* The invoke of task i resolves with the answer; that request is over.
LiveInvokeReturns(i) ==
  /\ edge[i] \in Answered
  /\ InvokeReturns(i, InvokeResponse(i, edge[i]))
  /\ edge' = [edge EXCEPT ![i] = "idle"]
  /\ UNCHANGED poll

LiveFuse ==
  /\ Fuse
  /\ edge' = [edge EXCEPT ![5] = "posted"]
  /\ UNCHANGED poll

LiveThesisReturns(resp) ==
  /\ edge[5] \in Answered
  /\ resp \in NarrativeResponse(edge[5])
  /\ ThesisReturns(resp)
  /\ edge' = [edge EXCEPT ![5] = "idle", ![6] = "posted"]
  /\ UNCHANGED poll

LiveSummaryReturns(resp) ==
  /\ edge[6] \in Answered
  /\ resp \in NarrativeResponse(edge[6])
  /\ SummaryReturns(resp)
  /\ edge' = [edge EXCEPT ![6] = "idle"]
  /\ UNCHANGED poll

LiveNext ==
  \/ LiveDispatch /\ UNCHANGED <<clampVars, retryVars, fbVars, batchVars, otherVars>>
  \/ \E c \in Calls : \E status \in CreateStatuses :
       PredictionCreated(c, status)
       /\ UNCHANGED <<clampVars, retryVars, fbVars, batchVars, otherVars>>
  \/ \E c \in Calls : \E status \in PollStatuses :
       PollAnswers(c, status)
       /\ UNCHANGED <<clampVars, retryVars, fbVars, batchVars, otherVars>>
  \/ \E c \in Calls :
       PollSleepElapses(c)
       /\ UNCHANGED <<clampVars, retryVars, fbVars, batchVars, otherVars>>
  \/ \E i \in Slots :
       LiveInvokeReturns(i)
       /\ UNCHANGED <<clampVars, retryVars, fbVars, batchVars, otherVars>>
  \/ LiveFuse /\ UNCHANGED <<clampVars, retryVars, fbVars, batchVars, otherVars>>
  \/ \E resp \in NarrativeResponses :
       LiveThesisReturns(resp)
       /\ UNCHANGED <<clampVars, retryVars, fbVars, batchVars, otherVars>>
  \/ \E resp \in NarrativeResponses :
       LiveSummaryReturns(resp)
       /\ UNCHANGED <<clampVars, retryVars, fbVars, batchVars, otherVars>>

\* Every request in flight is answered or fails, every timer fires and the
\* event loop runs every continuation that is ready.
LiveFairness == WF_vars(LiveNext)

SpecLive == LiveInit /\ [][LiveNext]_vars /\ LiveFairness

\* Task i comes back from an invoke whose polling timed out.
TimedOutTaskSettles(i) ==
  edge[i] = "timed_out" /\ task[i].state = "pending" /\ task'[i].state # "pending"

----------------------------------------------------------------------------
(* processWithRateLimit(items, processor, batchSize, delayMs) (part_000,   *)
(* "Rate Limiting").  Items are numbered 1..items.length, and the result   *)
(* of processor(item k) is written k.                                      *)

MaxItems == 5
MaxBatchSize == 3

\* items.slice(i, i + size), for the 0-based index i.
Slice(i, size) ==
  [j \in 1..((IF i + size < bItems THEN i + size ELSE bItems) - i) |-> i + j]

\* Promise.all resolves with the results by position in batch.
PromiseAllValues(batch, arrival) == batch

\* A loop that sleeps after every batch.
NeedsDelayAlways(i, size) == TRUE

\* if (i + batchSize < items.length)
NeedsDelay(i, size) == i + size < bItems

\* The loop test i < items.length: where the function stands next ...
LoopHeadPc(i) == IF i < bItems THEN "awaiting" ELSE "returned"

\* ... and the processors batch.map(processor) starts if it holds.
LoopHeadState(st, i) ==
  IF i < bItems
  THEN [k \in 1..bItems |->
          IF i < k /\ k <= i + batchSize THEN "inflight" ELSE st[k]]
  ELSE st

BatchInit ==
  /\ bItems \in 0..MaxItems
  /\ batchSize \in 1..MaxBatchSize
  /\ bIndex = 0
  /\ bPc = "called"
  /\ bState = [k \in 1..bItems |-> "waiting"]
  /\ bArrival = <<>>
  /\ bResults = <<>>
  /\ bSleeps = 0
  /\ RunIdle
  /\ ClampIdle
  /\ RetryIdle
  /\ FallbackIdle
  /\ EdgeIdle
  /\ OthersIdle

\* The call runs up to its first await: the first batch is started, or
\* the function returns at once for no items.
ProcessWithRateLimit ==
  /\ bPc = "called"
  /\ bPc' = LoopHeadPc(0)
  /\ bState' = LoopHeadState(bState, 0)
  /\ UNCHANGED <<bItems, batchSize, bIndex, bArrival, bResults, bSleeps>>

\* processor(item k) settles.  A rejection rejects Promise.all and with it
\* the call; the last fulfilment of the batch resolves Promise.all, the
\* results are pushed and the function sleeps or goes round the loop.  The
\* processors of a rejected batch run on.
ProcessorSettles(k, ok) ==
  /\ k \in 1..bItems
  /\ bState[k] = "inflight"
  /\ LET settled == [bState EXCEPT ![k] = IF ok THEN "done" ELSE "failed"]
         batch == Slice(bIndex, batchSize)
         arrival == Append(bArrival, k)
     IN IF bPc # "awaiting"
        THEN /\ bState' = settled
             /\ UNCHANGED <<bPc, bIndex, bArrival, bResults>>
        ELSE IF ~ok
        THEN /\ bState' = settled
             /\ bPc' = "rejected"
             /\ UNCHANGED <<bIndex, bArrival, bResults>>
        ELSE IF Len(arrival) < Len(batch)
        THEN /\ bState' = settled
             /\ bArrival' = arrival
             /\ UNCHANGED <<bPc, bIndex, bResults>>
        ELSE /\ bResults' = bResults \o PromiseAllValues(batch, arrival)
             /\ bArrival' = arrival
             /\ IF NeedsDelay(bIndex, batchSize)
                THEN /\ bPc' = "sleeping"
                     /\ bState' = settled
                     /\ UNCHANGED bIndex
                ELSE /\ bIndex' = bIndex + batchSize
                     /\ bPc' = LoopHeadPc(bIndex + batchSize)
                     /\ bState' = LoopHeadState(settled, bIndex + batchSize)
  /\ UNCHANGED <<bItems, batchSize, bSleeps>>

\* The timer of the inter-batch delay fires: i += batchSize, loop test.
DelayElapses ==
  /\ bPc = "sleeping"
  /\ bSleeps' = bSleeps + 1
  /\ bIndex' = bIndex + batchSize
  /\ bPc' = LoopHeadPc(bIndex + batchSize)
  /\ bState' = LoopHeadState(bState, bIndex + batchSize)
  /\ bArrival' = IF bIndex + batchSize < bItems THEN <<>> ELSE bArrival
  /\ UNCHANGED <<bItems, batchSize, bResults>>

BatchNext ==
  \/ ProcessWithRateLimit
     /\ UNCHANGED <<runVars, clampVars, retryVars, fbVars, edgeVars, otherVars>>
  \/ \E k \in 1..MaxItems : \E ok \in BOOLEAN :
       ProcessorSettles(k, ok)
       /\ UNCHANGED <<runVars, clampVars, retryVars, fbVars, edgeVars, otherVars>>
  \/ DelayElapses
     /\ UNCHANGED <<runVars, clampVars, retryVars, fbVars, edgeVars, otherVars>>

SpecBatch == BatchInit /\ [][BatchNext]_vars

\* The batch item k belongs to, counted from 0.
BatchOf(k) == (k - 1) \div batchSize

Started == {k \in 1..bItems : bState[k] # "waiting"}

InFlight == {k \in 1..bItems : bState[k] = "inflight"}

\* C20: the records in flight belong to one batch of consecutive records
\* and are at most batchSize; a record of a later batch has started only
\* if every record of the batches before it has finished and as many
\* delays have elapsed as there are batches before it; the function sleeps
\* only when a batch is still to come, so that no delay follows the last
\* batch; and it returns the results in input order.
C20_BatchesSerializedInOrder ==
  /\ Cardinality(InFlight) <= batchSize
  /\ \A k \in InFlight : \A m \in InFlight : BatchOf(k) = BatchOf(m)
  /\ \A k \in Started :
       /\ \A m \in 1..bItems : BatchOf(m) < BatchOf(k) => bState[m] = "done"
       /\ bSleeps >= BatchOf(k)
  /\ bPc = "sleeping" => bIndex + batchSize < bItems
  /\ bPc = "returned" =>
       /\ bResults = [k \in 1..bItems |-> k]
       /\ bSleeps = (IF bItems = 0 THEN 0 ELSE BatchOf(bItems))

C20_Witness ==
  /\ bPc = "returned"
  /\ bItems = 4
  /\ batchSize = 2
  /\ bArrival = <<4, 3>>
  /\ bResults = <<1, 2, 3, 4>>
  /\ bSleeps = 1

----------------------------------------------------------------------------
(* The JSON normalizers.                                                   *)

\* cleanAndParseJSON of the scanner edge function (part_000:339-347),
\* cleanAndParseJSON of "AI Response Parsing" (part_000:1448-1464) and the
\* extraction of analyzeBusinessWithReplicate (supabase migration
\* 20260206005604, lines 274-286).  A text is a sequence of characters;
\* three backticks ("fence"), the word json and a key with its quotes and
\* colon ("key1", "key2", ...) are held as one element each; "q" is the
\* double quote, "nl" the line feed.  An object is the sequence of its members.

MaxMembers == 2
MaxElems == 2

\* The contents of the string values tried.
StringContents ==
  {<<>>, <<"x">>, <<"x", ",", "}">>, <<"x", ",", " ", "}">>, <<",", "]">>,
   <<"fence", "x">>}

MemberValues ==
  {[t |-> "num", v |-> <<>>, n |-> 0]}
  \cup {[t |-> "arr", v |-> <<>>, n |-> n] : n \in 0..MaxElems}
  \cup {[t |-> "str", v |-> c, n |-> 0] : c \in StringContents}

JsonObjects ==
  UNION {[1..m -> MemberValues] : m \in 0..MaxMembers}

Key(i) == <<"key" \o ToString(i)>>

\* The text of n array elements, a comma between them.
RECURSIVE ElemsText(_)
ElemsText(n) ==
  IF n = 0 THEN <<>>
  ELSE IF n = 1 THEN <<"1">>
  ELSE ElemsText(n - 1) \o <<",", "1">>

\* The text of a member value; tc is the text put before a closing
\* bracket or brace that follows an element or member: nothing in clean
\* JSON, a trailing comma otherwise.
ValueText(m, tc) ==
  CASE m.t = "num" -> <<"1">>
    [] m.t = "str" -> <<"q">> \o m.v \o <<"q">>
    [] OTHER -> <<"[">> \o ElemsText(m.n) \o (IF m.n > 0 THEN tc ELSE <<>>) \o <<"]">>

RECURSIVE MembersText(_, _, _)
MembersText(obj, k, tc) ==
  IF k = 0 THEN <<>>
  ELSE MembersText(obj, k - 1, tc) \o (IF k > 1 THEN <<",">> ELSE <<>>)
       \o Key(k) \o ValueText(obj[k], tc)

\* JSON.stringify(obj), with tc before every closing bracket and brace.
Serialize(obj, tc) ==
  <<"{">> \o MembersText(obj, Len(obj), tc)
  \o (IF Len(obj) > 0 THEN tc ELSE <<>>) \o <<"}">>

TrailingCommas == {<<",">>, <<",", " ">>, <<",", "nl">>}

\* The text between fence markers, with or without the language tag.
Wrap(text, fence) ==
  (IF fence = "json" THEN <<"fence", "json", "nl">> ELSE <<"fence", "nl">>)
  \o text \o <<"nl", "fence">>

IsSpace(c) == c \in {" ", "nl"}

\* text.replace(/```json\n?/g, ''), from position i on.
RECURSIVE StripJsonFence(_, _)
StripJsonFence(t, i) ==
  IF i > Len(t) THEN <<>>
  ELSE IF t[i] = "fence" /\ i < Len(t) /\ t[i + 1] = "json"
  THEN StripJsonFence(t, IF i + 2 <= Len(t) /\ t[i + 2] = "nl"
                         THEN i + 3 ELSE i + 2)
  ELSE <<t[i]>> \o StripJsonFence(t, i + 1)

\* text.replace(/```\n?/g, ''), from position i on.
RECURSIVE StripFence(_, _)
StripFence(t, i) ==
  IF i > Len(t) THEN <<>>
  ELSE IF t[i] = "fence"
  THEN StripFence(t, IF i + 1 <= Len(t) /\ t[i + 1] = "nl"
                     THEN i + 2 ELSE i + 1)
  ELSE <<t[i]>> \o StripFence(t, i + 1)

RECURSIVE TrimStart(_)
TrimStart(t) ==
  IF t # <<>> /\ IsSpace(Head(t)) THEN TrimStart(Tail(t)) ELSE t

RECURSIVE TrimEnd(_)
TrimEnd(t) ==
  IF t # <<>> /\ IsSpace(t[Len(t)])
  THEN TrimEnd(SubSeq(t, 1, Len(t) - 1)) ELSE t

\* text.trim()
Trim(t) == TrimEnd(TrimStart(t))

\* The first position from i on that holds no white space.
RECURSIVE SkipSpace(_, _)
SkipSpace(t, i) ==
  IF i <= Len(t) /\ IsSpace(t[i]) THEN SkipSpace(t, i + 1) ELSE i

\* text.replace(/,\s*}/g, '}') for closer "}", and the same with "]",
\* from position i on.
RECURSIVE DropCommaBefore(_, _, _)
DropCommaBefore(t, i, closer) ==
  IF i > Len(t) THEN <<>>
  ELSE LET j == SkipSpace(t, i + 1)
       IN IF t[i] = "," /\ j <= Len(t) /\ t[j] = closer
          THEN <<closer>> \o DropCommaBefore(t, j + 1, closer)
          ELSE <<t[i]>> \o DropCommaBefore(t, i + 1, closer)

\* text.indexOf(c) and text.lastIndexOf(c), counted from 1; 0 for none.
IndexOf(t, c) ==
  IF \E i \in 1..Len(t) : t[i] = c
  THEN CHOOSE i \in 1..Len(t) : t[i] = c /\ \A j \in 1..(i - 1) : t[j] # c
  ELSE 0

LastIndexOf(t, c) ==
  IF \E i \in 1..Len(t) : t[i] = c
  THEN CHOOSE i \in 1..Len(t) : t[i] = c /\ \A j \in (i + 1)..Len(t) : t[j] # c
  ELSE 0

\* JSON.parse throws a SyntaxError.
Throws == [ok |-> FALSE, value |-> <<>>]

ParseFails == [ok |-> FALSE, pos |-> 0, val |-> <<>>]

Parsed(pos, val) == [ok |-> TRUE, pos |-> pos, val |-> val]

\* The closing quote of the string whose contents start at i; a string
\* holds no line feed.
RECURSIVE ClosingQuote(_, _)
ClosingQuote(t, i) ==
  IF i > Len(t) \/ t[i] = "nl" THEN 0
  ELSE IF t[i] = "q" THEN i
  ELSE ClosingQuote(t, i + 1)

\* The elements of an array from position i on, n of them read already.
RECURSIVE ParseElems(_, _, _)
ParseElems(t, i, n) ==
  LET a == SkipSpace(t, i)
      b == SkipSpace(t, a + 1)
  IN IF a > Len(t) \/ b > Len(t) THEN ParseFails
     ELSE IF t[a] # "1" THEN ParseFails
     ELSE IF t[b] = "]"
     THEN Parsed(b + 1, [t |-> "arr", v |-> <<>>, n |-> n + 1])
     ELSE IF t[b] = "," THEN ParseElems(t, b + 1, n + 1)
     ELSE ParseFails

\* A value from position i on: a number, a string or an array.
ParseValue(t, i) ==
  LET a == SkipSpace(t, i)
  IN IF a > Len(t) THEN ParseFails
     ELSE CASE t[a] = "1" -> Parsed(a + 1, [t |-> "num", v |-> <<>>, n |-> 0])
            [] t[a] = "q" ->
                 LET c == ClosingQuote(t, a + 1)
                 IN IF c = 0 THEN ParseFails
                    ELSE Parsed(c + 1, [t |-> "str", v |-> SubSeq(t, a + 1, c - 1),
                                        n |-> 0])
            [] t[a] = "[" ->
                 LET e == SkipSpace(t, a + 1)
                 IN IF e <= Len(t) /\ t[e] = "]"
                    THEN Parsed(e + 1, [t |-> "arr", v |-> <<>>, n |-> 0])
                    ELSE ParseElems(t, a + 1, 0)
            [] OTHER -> ParseFails

KeyTokens == {Key(k)[1] : k \in 1..(MaxMembers + 1)}

\* The members of an object from position i on, acc read already.
RECURSIVE ParseMembers(_, _, _)
ParseMembers(t, i, acc) ==
  LET a == SkipSpace(t, i)
  IN IF a > Len(t) THEN ParseFails
     ELSE IF t[a] \notin KeyTokens THEN ParseFails
     ELSE LET val == ParseValue(t, a + 1)
              b == SkipSpace(t, val.pos)
              read == Append(acc, <<t[a], val.val>>)
          IN IF ~val.ok THEN ParseFails
             ELSE IF b > Len(t) THEN ParseFails
             ELSE IF t[b] = "}" THEN Parsed(b + 1, read)
             ELSE IF t[b] = "," THEN ParseMembers(t, b + 1, read)
             ELSE ParseFails

\* JSON.parse(text) for the text of an object: the object, or Throws.
JSONparse(t) ==
  LET a == SkipSpace(t, 1)
      b == SkipSpace(t, a + 1)
      obj == IF a > Len(t) \/ b > Len(t) THEN ParseFails
             ELSE IF t[a] # "{" THEN ParseFails
             ELSE IF t[b] = "}" THEN Parsed(b + 1, <<>>)
             ELSE ParseMembers(t, a + 1, <<>>)
  IN IF obj.ok /\ SkipSpace(t, obj.pos) > Len(t)
     THEN [ok |-> TRUE, value |-> obj.val]
     ELSE Throws

\* part_000:339-347
cleanAndParseJSON(responseText) ==
  LET cleaned == Trim(StripFence(StripJsonFence(responseText, 1), 1))
  IN JSONparse(DropCommaBefore(DropCommaBefore(cleaned, 1, "}"), 1, "]"))

\* part_000:1448-1464: the same replacements, then the text from the first
\* opening brace to the last closing brace.
cleanAndParseJSONBounded(text) ==
  LET cleaned ==
        Trim(DropCommaBefore(
               DropCommaBefore(StripFence(StripJsonFence(text, 1), 1), 1, "}"),
               1, "]"))
      start == IndexOf(cleaned, "{")
      end == LastIndexOf(cleaned, "}")
  IN JSONparse(IF start # 0 /\ end # 0 THEN SubSeq(cleaned, start, end)
               ELSE cleaned)

\* Migration lines 274-286: outputText.match(/\{[\s\S]*\}/), then
\* JSON.parse of the match; no match throws as well.
extractJSON(outputText) ==
  LET start == IndexOf(outputText, "{")
      end == LastIndexOf(outputText, "}")
  IN IF start # 0 /\ end > start
     THEN JSONparse(SubSeq(outputText, start, end))
     ELSE Throws

\* The object JSON.parse builds from the text of obj.
ObjectOf(obj) == [k \in 1..Len(obj) |-> <<Key(k)[1], obj[k]>>]

JsonInit ==
  /\ jObj \in JsonObjects
  /\ \E fence \in {"json", "plain"} : \E tc \in TrailingCommas :
       jText = Wrap(Serialize(jObj, tc), fence)
  /\ jPc = "input"
  /\ jOut = Throws
  /\ RestIdleOfJson

JsonScanner ==
  /\ jPc = "input"
  /\ jOut' = cleanAndParseJSON(jText)
  /\ jPc' = "scanner"
  /\ UNCHANGED <<jObj, jText, restOfJson>>

JsonBounded ==
  /\ jPc = "input"
  /\ jOut' = cleanAndParseJSONBounded(jText)
  /\ jPc' = "bounded"
  /\ UNCHANGED <<jObj, jText, restOfJson>>

JsonExtract ==
  /\ jPc = "input"
  /\ jOut' = extractJSON(jText)
  /\ jPc' = "extract"
  /\ UNCHANGED <<jObj, jText, restOfJson>>

JsonNext == JsonScanner \/ JsonBounded \/ JsonExtract

SpecJson == JsonInit /\ [][JsonNext]_vars

\* C21: for every text made of a valid JSON object between fence markers
\* with trailing commas before its closing braces and brackets, each
\* normalizer returns the object that JSON.parse returns for the clean
\* text of that object.
C21_NormalizerRecoversObject ==
  jPc \in {"scanner", "bounded", "extract"} =>
    /\ jOut = JSONparse(Serialize(jObj, <<>>))
    /\ jOut = [ok |-> TRUE, value |-> ObjectOf(jObj)]

----------------------------------------------------------------------------
(* Storage precision of the scores of a result.                            *)

\* v fits the storage format: a number of at most 3 decimals, at most 9.999.
FitsStorage(v) == v.k = "number" /\ v.n <= ScannerDefaultMaxValue /\ v.n % 10 = 0

\* C22: the automation_opportunity_score and the composite_score of every
\* result of runComprehensiveAnalysis are at most 9.999 and have at most 3
\* decimal digits, whatever the provider returned.
C22_ScoresFitStorage ==
  pc = "Done" =>
    /\ FitsStorage(out.automation_opportunity_score)
    /\ FitsStorage(out.composite_score)

----------------------------------------------------------------------------
(* The provider adapter on its own: callReplicateModel and pollPrediction,  *)
(* with every request the call sends kept in a log.                        *)

\* The largest maxAttempts pollPrediction is called with.
MaxAttempts == 3

\* What the POST comes back with: fetch throws, a response that is not ok,
\* or a prediction of some status.
AdapterCreateStatuses ==
  {"fetch_error", "http_error", "starting", "processing", "succeeded",
   "failed", "canceled"}

\* What a GET comes back with: fetch or response.json() throws, a body
\* without a status (pollPrediction does not test response.ok), or a
\* prediction of some status.
AdapterPollStatuses ==
  {"fetch_error", "http_error", "starting", "processing", "succeeded",
   "failed", "canceled"}

\* A loop test that lets one more iteration through.
pollPredictionOneMore(attempt, max) ==
  IF attempt <= max THEN "polling" ELSE "timed_out"

\* The test of the for loop of pollPrediction: another GET while attempt is
\* below maxAttempts, 'Prediction timed out' past it.
pollPrediction(attempt, max) ==
  IF attempt < max THEN "polling" ELSE "timed_out"

\* What callReplicateModel throws for an answer that ends it in an error.
Thrown(status) ==
  CASE status = "fetch_error" -> "threw_fetch"
    [] status = "http_error" -> "threw_http"
    [] OTHER -> "threw_failed"

AdapterInit ==
  /\ RestIdleOfAdapter
  /\ aPc = "call"
  /\ maxAttempts \in 0..MaxAttempts
  /\ aPosts = <<>>
  /\ aPolls = <<>>
  /\ aResult = "none"

\* REPLICATE_API_TOKEN is not set: the call throws before any request.
AdapterMissingToken ==
  /\ aPc = "call"
  /\ aPc' = "done"
  /\ aResult' = "threw_token"
  /\ UNCHANGED <<maxAttempts, aPosts, aPolls, restOfAdapter>>

\* The POST is sent and answered; a starting or processing prediction
\* enters pollPrediction with attempt = 0.
AdapterPostAnswers ==
  /\ aPc = "call"
  /\ \E status \in AdapterCreateStatuses :
       /\ aPosts' = Append(aPosts, status)
       /\ LET next == callReplicateModel(status)
              loop == pollPrediction(0, maxAttempts)
          IN  CASE next = "fail" ->
                     aPc' = "done" /\ aResult' = Thrown(status)
                [] next = "ok" ->
                     aPc' = "done" /\ aResult' = "returned"
                [] OTHER ->
                     IF loop = "polling"
                       THEN aPc' = "polling" /\ aResult' = aResult
                       ELSE aPc' = "done" /\ aResult' = "threw_timed_out"
  /\ UNCHANGED <<maxAttempts, aPolls, restOfAdapter>>

\* One GET of the polling loop is sent and answered.
AdapterGetAnswers ==
  /\ aPc = "polling"
  /\ \E status \in AdapterPollStatuses :
       /\ aPolls' = Append(aPolls, status)
       /\ LET next == AfterPoll(status)
          IN  CASE next = "ok" ->
                     aPc' = "done" /\ aResult' = "returned"
                [] next = "fail" ->
                     aPc' = "done" /\ aResult' = Thrown(status)
                [] OTHER ->
                     aPc' = "sleeping" /\ aResult' = aResult
  /\ UNCHANGED <<maxAttempts, aPosts, restOfAdapter>>

\* The 2 s sleep is over: attempt++ (one GET per iteration, so attempt is
\* the number of GETs sent), then the loop test.
AdapterSleepElapses ==
  /\ aPc = "sleeping"
  /\ IF pollPrediction(Len(aPolls), maxAttempts) = "polling"
       THEN aPc' = "polling" /\ aResult' = aResult
       ELSE aPc' = "done" /\ aResult' = "threw_timed_out"
  /\ UNCHANGED <<maxAttempts, aPosts, aPolls, restOfAdapter>>

AdapterNext ==
  \/ AdapterMissingToken
  \/ AdapterPostAnswers
  \/ AdapterGetAnswers
  \/ AdapterSleepElapses

SpecAdapter == AdapterInit /\ [][AdapterNext]_vars

\* Every fetch is answered or throws and every timer fires.
AdapterFairness == WF_vars(AdapterNext)

SpecAdapterFair == AdapterInit /\ [][AdapterNext]_vars /\ AdapterFairness

\* The requests the call has sent.
OutboundCalls == Len(aPosts) + Len(aPolls)

\* C23 as stated: every invocation of callReplicateModel that has ended
\* has sent exactly one request, whatever the provider answered.
C23_ExactlyOneOutboundCall ==
  aPc = "done" => OutboundCalls = 1

\* C23: an invocation of callReplicateModel sends the POST that creates the
\* prediction at most once, exactly once when it ended otherwise than on
\* the missing token; it sends status GETs only when that POST came back
\* 'starting' or 'processing', and at most maxAttempts of them.
C23_OnePostThenBoundedPolls ==
  /\ Len(aPosts) <= 1
  /\ (aPc = "done" /\ aResult # "threw_token") => Len(aPosts) = 1
  /\ aResult = "threw_token" => OutboundCalls = 0
  /\ aPolls # <<>> =>
       /\ Len(aPosts) = 1
       /\ aPosts[1] \in {"starting", "processing"}
  /\ Len(aPolls) <= maxAttempts

\* A call that ended after one POST and more than one GET.
C23_Witness ==
  /\ aPc = "done"
  /\ Len(aPosts) = 1
  /\ Len(aPolls) > 1

\* pollPrediction has been entered.
Polled == aPosts # <<>> /\ aPosts[1] \in {"starting", "processing"}

\* The GETs before position i all reported a status that is slept on.
SleptOnBefore(i) ==
  \A j \in 1..(i - 1) : aPolls[j] \notin {"succeeded", "failed", "fetch_error"}

\* How pollPrediction ends, given the answers of its GETs.
PollOutcome ==
  /\ Len(aPolls) <= maxAttempts
  /\ SleptOnBefore(Len(aPolls))
  /\ (Polled /\ aPc = "done") =>
       LET n == Len(aPolls) IN
         IF n > 0 /\ aPolls[n] = "succeeded" THEN aResult = "returned"
         ELSE IF n > 0 /\ aPolls[n] = "failed" THEN aResult = "threw_failed"
         ELSE IF n > 0 /\ aPolls[n] = "fetch_error" THEN aResult = "threw_fetch"
         ELSE aResult = "threw_timed_out" /\ n = maxAttempts

\* C25: pollPrediction ends for every sequence of answers, after at most
\* maxAttempts GETs: it returns at the first 'succeeded', throws at the
\* first 'failed', and throws 'Prediction timed out' once maxAttempts GETs
\* reported another status.
C25_PollingTerminates ==
  /\ []PollOutcome
  /\ (aPc \in {"polling", "sleeping"}) ~> (aPc = "done")

\* pollPrediction timed out on maxAttempts GETs, one of them 'canceled'.
C25_Witness ==
  /\ aPc = "done"
  /\ aResult = "threw_timed_out"
  /\ Len(aPolls) = maxAttempts
  /\ \E i \in 1..Len(aPolls) : aPolls[i] = "canceled"

----------------------------------------------------------------------------
(* The agent control panel: startScan, fetchRecentRuns and the             *)
(* subscription to the changes of analysis_runs. The scanner behind the    *)
(* invoke and the rows of the table are the environment: one row is the    *)
(* run the scan creates, one stands for the other recent runs.             *)

\* The most fetchRecentRuns queries in flight, and events not yet delivered.
MaxFetches == 2
MaxEvents == 2

\* run.status === 'pending' || run.status === 'processing'
ActiveStatus(status) == status \in {"pending", "processing"}

NoRun == [id |-> "null", status |-> "null"]

\* A fetchRecentRuns query the server has not read the table for yet.
SentQuery == [st |-> "sent", error |-> FALSE, run |-> "none", other |-> "none"]

\* s without its element i.
WithoutAt(s, i) == SubSeq(s, 1, i - 1) \o SubSeq(s, i + 1, Len(s))

\* The effect of the component: it runs again, and calls fetchRecentRuns
\* again, whenever currentRun?.id has changed.
EffectOnRunId(old, new, inFlight) ==
  IF old.id # new.id THEN Append(inFlight, SentQuery) ELSE inFlight

\* data?.find(run => pending or processing) over the rows by started_at
\* descending: the run of the scan is the most recent one.
activeRun(data) ==
  IF ActiveStatus(data.run) THEN [id |-> "run", status |-> data.run]
  ELSE IF ActiveStatus(data.other) THEN [id |-> "other", status |-> data.other]
  ELSE NoRun

\* The component has mounted: state at its initial values, the effect has
\* called fetchRecentRuns and subscribed.
PanelInit ==
  /\ RestIdleOfPanel
  /\ isScanning = FALSE
  /\ currentRun = NoRun
  /\ recentRuns = <<>>
  /\ startPc = "idle"
  /\ fetches = <<SentQuery>>
  /\ events = <<>>
  /\ runRow = "none"
  /\ otherRow \in {"processing", "completed"}

\* The Start button (disabled={isScanning}) is clicked: startScan up to its
\* await of the invoke.
StartScanClicked ==
  /\ startPc = "idle"
  /\ ~isScanning
  /\ isScanning' = TRUE
  /\ startPc' = "invoking"
  /\ UNCHANGED <<currentRun, recentRuns, fetches, events, runRow, otherRow,
                 restOfPanel>>

\* The scanner inserts the row of the run.
ScannerCreatesRun ==
  /\ startPc = "invoking"
  /\ runRow = "none"
  /\ Len(events) < MaxEvents
  /\ runRow' = "pending"
  /\ events' = Append(events, [type |-> "INSERT", id |-> "run",
                               status |-> "pending"])
  /\ UNCHANGED <<isScanning, currentRun, recentRuns, startPc, fetches,
                 otherRow, restOfPanel>>

\* The scanner updates the row of the run.
ScannerAdvancesRun ==
  /\ Len(events) < MaxEvents
  /\ \E status \in {"processing", "completed", "failed"} :
       /\ \/ runRow = "pending" /\ status = "processing"
          \/ runRow = "processing" /\ status \in {"completed", "failed"}
       /\ runRow' = status
       /\ events' = Append(events, [type |-> "UPDATE", id |-> "run",
                                    status |-> status])
  /\ UNCHANGED <<isScanning, currentRun, recentRuns, startPc, fetches,
                 otherRow, restOfPanel>>

\* Another run among the five most recent ends.
OtherRunEnds ==
  /\ otherRow = "processing"
  /\ Len(events) < MaxEvents
  /\ otherRow' = "completed"
  /\ events' = Append(events, [type |-> "UPDATE", id |-> "other",
                               status |-> "completed"])
  /\ UNCHANGED <<isScanning, currentRun, recentRuns, startPc, fetches,
                 runRow, restOfPanel>>

\* The invoke of startScan returns: with data.success and the id of the
\* run, or with an error or success false, which the catch answers with
\* setIsScanning(false).
StartInvokeReturns ==
  /\ startPc = "invoking"
  /\ \E ok \in BOOLEAN :
       IF ok
         THEN /\ runRow # "none"
              /\ startPc' = "fetchingNew"
              /\ isScanning' = isScanning
         ELSE /\ startPc' = "failed"
              /\ isScanning' = FALSE
  /\ UNCHANGED <<currentRun, recentRuns, fetches, events, runRow, otherRow,
                 restOfPanel>>

\* The query for the new run returns: if (newRun) setCurrentRun(newRun).
NewRunFetched ==
  /\ startPc = "fetchingNew"
  /\ \E found \in BOOLEAN :
       LET new == IF found THEN [id |-> "run", status |-> runRow]
                  ELSE currentRun
       IN  /\ currentRun' = new
           /\ fetches' = EffectOnRunId(currentRun, new, fetches)
  /\ Len(fetches') <= MaxFetches
  /\ startPc' = "started"
  /\ UNCHANGED <<isScanning, recentRuns, events, runRow, otherRow,
                 restOfPanel>>

\* The callback of the subscription on the oldest undelivered event.
EventDelivered ==
  /\ events # <<>>
  /\ Len(fetches) < MaxFetches
  /\ LET payload == Head(events)
     IN  currentRun' =
           IF payload.type = "UPDATE" /\ currentRun.id = payload.id
             THEN [id |-> payload.id, status |-> payload.status]
             ELSE currentRun
  /\ fetches' = Append(fetches, SentQuery)
  /\ events' = Tail(events)
  /\ UNCHANGED <<isScanning, recentRuns, startPc, runRow, otherRow,
                 restOfPanel>>

\* The server answers query i of fetchRecentRuns: with the rows as they
\* are now, or with an error.
QueryAnswered(i) ==
  /\ fetches[i].st = "sent"
  /\ \E error \in BOOLEAN :
       fetches' = [fetches EXCEPT ![i] =
                     [st |-> "read", error |-> error,
                      run |-> IF error THEN "none" ELSE runRow,
                      other |-> IF error THEN "none" ELSE otherRow]]
  /\ UNCHANGED <<isScanning, currentRun, recentRuns, startPc, events, runRow,
                 otherRow, restOfPanel>>

\* fetchRecentRuns after its await, on the answer of query i; the answers
\* of queries in flight arrive in any order.
fetchRecentRuns(i) ==
  /\ fetches[i].st = "read"
  /\ LET data == fetches[i]
         rest == WithoutAt(fetches, i)
         found == activeRun(data)
     IN  IF data.error
           THEN /\ fetches' = rest
                /\ UNCHANGED <<isScanning, currentRun, recentRuns>>
           ELSE /\ recentRuns' = <<data.run, data.other>>
                /\ IF found # NoRun
                     THEN /\ currentRun' = found
                          /\ isScanning' = TRUE
                     ELSE /\ currentRun' = currentRun
                          /\ isScanning' = FALSE
                /\ fetches' = EffectOnRunId(currentRun, currentRun', rest)
  /\ UNCHANGED <<startPc, events, runRow, otherRow, restOfPanel>>

PanelNext ==
  \/ StartScanClicked
  \/ ScannerCreatesRun
  \/ ScannerAdvancesRun
  \/ OtherRunEnds
  \/ StartInvokeReturns
  \/ NewRunFetched
  \/ EventDelivered
  \/ \E i \in 1..MaxFetches : i <= Len(fetches) /\ QueryAnswered(i)
  \/ \E i \in 1..MaxFetches : i <= Len(fetches) /\ fetchRecentRuns(i)

SpecPanel == PanelInit /\ [][PanelNext]_vars

\* Every request of the panel is answered and every event is delivered;
\* nothing is assumed of the user or of the progress of the runs.
PanelFairness ==
  /\ WF_vars(StartInvokeReturns)
  /\ WF_vars(NewRunFetched)
  /\ WF_vars(EventDelivered)
  /\ WF_vars(\E i \in 1..MaxFetches : i <= Len(fetches) /\ QueryAnswered(i))
  /\ WF_vars(\E i \in 1..MaxFetches : i <= Len(fetches) /\ fetchRecentRuns(i))

SpecPanelFair == PanelInit /\ [][PanelNext]_vars /\ PanelFairness

\* C24: while the invoke of startScan is in flight isScanning is true, under
\* every interleaving with events and completions of fetchRecentRuns.
C24_ScanningWhileInvoking ==
  startPc = "invoking" => isScanning

\* The tracked run has ended, every change event has been delivered and
\* the fetchRecentRuns query of the callback is on its way.
TrackedRunEnded ==
  /\ currentRun.id = "run"
  /\ runRow \in {"completed", "failed"}
  /\ events = <<>>
  /\ fetches # <<>>
  /\ fetches[Len(fetches)].st = "sent"

\* C28: once the tracked run has reached a terminal status and its change
\* event is delivered, the panel eventually has isScanning false unless
\* another recent run is pending or processing; and a failing startScan
\* sets isScanning to false.
C28_PanelReturnsToIdle ==
  /\ TrackedRunEnded ~> (~isScanning \/ ActiveStatus(otherRow))
  /\ [][startPc = "invoking" /\ startPc' = "failed" => ~isScanning']_vars

----------------------------------------------------------------------------
(* calculateCompositeScore on two inputs that differ in one score.         *)

\* Scores in [0, 1], times 10000: 0, 0.1, 0.5, 0.7 and 1.
CompScores == {0, 1000, 5000, 7000, 10000}

CompGrowthRates == {"growing", "declining"}

CompFields ==
  {"financial_health_score", "strategic_value_score", "overall_risk_score"}

\* The four domain results that carry the scores sc.
CompFinancial(sc) ==
  [NoFields EXCEPT !.financial_health_score = Num(sc.financial_health_score)]
CompStrategic(sc) ==
  [NoFields EXCEPT !.strategic_value_score = Num(sc.strategic_value_score)]
CompMarket(sc) ==
  [NoFields EXCEPT !.market_growth_rate = Str(sc.market_growth_rate)]
CompRisk(sc) ==
  [NoFields EXCEPT !.overall_risk_score = Num(sc.overall_risk_score)]

CompositeOf(sc) ==
  calculateCompositeScore(CompFinancial(sc), CompStrategic(sc),
                          CompMarket(sc), CompRisk(sc))

CompInit ==
  /\ RestIdleOfComp
  /\ cScores \in [financial_health_score : CompScores,
                  strategic_value_score : CompScores,
                  market_growth_rate : CompGrowthRates,
                  overall_risk_score : CompScores]
  /\ cField \in CompFields
  /\ cRaised \in CompScores
  /\ cRaised > cScores[cField]
  /\ cPc = "start"
  /\ cLow = 0
  /\ cHigh = 0

\* calculateCompositeScore on the results as given and on the same results
\* with the one score raised.
CompCalculate ==
  /\ cPc = "start"
  /\ cLow' = CompositeOf(cScores).n
  /\ cHigh' = CompositeOf([cScores EXCEPT ![cField] = cRaised]).n
  /\ cPc' = "done"
  /\ UNCHANGED <<cScores, cField, cRaised, restOfComp>>

CompNext == CompCalculate

SpecComp == CompInit /\ [][CompNext]_vars

\* C26: over scores in [0, 1], 0 included, with the other results fixed,
\* raising financial_health_score or strategic_value_score never lowers
\* the composite score and raising overall_risk_score never raises it.
C26_CompositeMonotone ==
  cPc = "done" =>
    IF cField = "overall_risk_score" THEN cHigh <= cLow ELSE cLow <= cHigh

----------------------------------------------------------------------------
(* The dynamic capital stack: leversData and the capitalStack memo over    *)
(* the array of active levers. Amounts are whole dollars.                  *)

leversData ==
  <<"sellerEarnOut", "revenueNote", "impactFund", "greenStack",
    "employeePool", "grantLayer">>

LeverIds == {leversData[i] : i \in 1..Len(leversData)}

\* Asking prices whose shares and halves are whole dollars.
LeverAskingPrices == {1000000, 2800000}

\* lever.adjustment(stack) of the lever with this id.
adjustment(leverId, stack) ==
  CASE leverId = "sellerEarnOut" ->
         [stack EXCEPT !.sellerNote = (stack.purchasePrice * 20) \div 100,
                       !.sba7a = stack.sba7a - (stack.purchasePrice * 20) \div 100]
    [] leverId = "revenueNote" ->
         [stack EXCEPT !.revenueNote = 500000,
                       !.sba7a = stack.sba7a - 500000]
    [] leverId = "impactFund" ->
         [stack EXCEPT !.impactFund = stack.buyerEquity \div 2,
                       !.buyerEquity = stack.buyerEquity \div 2]
    [] leverId = "greenStack" ->
         [stack EXCEPT !.greenFinancing = 250000,
                       !.workingCapital = stack.workingCapital - 250000]
    [] leverId = "employeePool" ->
         [stack EXCEPT !.employeePool = 100000,
                       !.buyerEquity = stack.buyerEquity - 100000]
    [] OTHER ->
         [stack EXCEPT !.grants = 25000,
                       !.buyerEquity = stack.buyerEquity - 25000]

\* The stack before any lever.
BaseStack(b) ==
  [purchasePrice |-> b.asking_price,
   sba7a |-> (b.asking_price * 75) \div 100,
   buyerEquity |-> (b.asking_price * 15) \div 100,
   workingCapital |-> (b.asking_price * 10) \div 100,
   sellerNote |-> 0, revenueNote |-> 0, impactFund |-> 0,
   greenFinancing |-> 0, employeePool |-> 0, grants |-> 0]

\* activeLevers.forEach(...) from the element at position i on.
RECURSIVE ApplyLevers(_, _, _)
ApplyLevers(levers, i, stack) ==
  IF i > Len(levers) THEN stack
  ELSE ApplyLevers(levers, i + 1, adjustment(levers[i], stack))

\* The capitalStack memo.
capitalStack(b, levers) == ApplyLevers(levers, 1, BaseStack(b))

LeverInit ==
  /\ RestIdleOfLever
  /\ selectedBusiness \in [asking_price : LeverAskingPrices]
  /\ activeLevers = <<>>

\* A click on the card of a lever: an active lever leaves the array, an
\* inactive one is put at its end.
toggleLever(leverId) ==
  /\ activeLevers' =
       IF \E i \in 1..Len(activeLevers) : activeLevers[i] = leverId
         THEN SelectSeq(activeLevers, LAMBDA l : l # leverId)
         ELSE Append(activeLevers, leverId)
  /\ UNCHANGED <<selectedBusiness, restOfLever>>

LeverNext == \E leverId \in LeverIds : toggleLever(leverId)

SpecLever == LeverInit /\ [][LeverNext]_vars

\* The active levers in the order of leversData.
InDataOrder ==
  SelectSeq(leversData,
            LAMBDA l : \E i \in 1..Len(activeLevers) : activeLevers[i] = l)

\* The sum of the financing components of a stack.
Financing(stack) ==
  stack.sba7a + stack.buyerEquity + stack.workingCapital + stack.sellerNote
  + stack.revenueNote + stack.impactFund + stack.greenFinancing
  + stack.employeePool + stack.grants

\* C29: the capital stack depends only on the set of active levers, not on
\* the order in which they were toggled, and for every set of active levers
\* the financing components sum to the purchase price.
C29_StackDependsOnSetOnly ==
  /\ capitalStack(selectedBusiness, activeLevers)
       = capitalStack(selectedBusiness, InDataOrder)
  /\ Financing(capitalStack(selectedBusiness, activeLevers))
       = selectedBusiness.asking_price

====
